---- MODULE Spec2Model ----
(***************************************************************************)
(* Model of the URL shortening service of main.go: the two HTTP handlers   *)
(* (indexHandler, shortenHandler), the short-code generator and the 'urls' *)
(* table.  One lightweight task runs per inbound request; the tasks share  *)
(* the table and interleave at every storage call.                         *)
(*                                                                         *)
(* Strings that the program builds or inspects character by character      *)
(* (codes, the base prefix, response bodies) are sequences of one          *)
(* character strings, so that concatenation and length are computed.       *)
(***************************************************************************)
EXTENDS Integers, Sequences, FiniteSets, TLC

(* ---------------------------------------------------------------------- *)
(* Bounds of the model                                                     *)
(* ---------------------------------------------------------------------- *)
\* number of inbound requests of one run
NumReqs == 2

Reqs == 1..NumReqs

\* number of requests of a run of the connection pool (PoolSpec)
PoolReqs == 12

(* ---------------------------------------------------------------------- *)
(* Program constants                                                       *)
(* ---------------------------------------------------------------------- *)
\* for i := 0; i < 10; i++
MaxAttempts == 10

\* generateShortCode(6)
CodeLength == 6

\* db.SetMaxOpenConns(10); 0 would mean no limit
MaxOpenConns == 10

\* const charset = "abc...xyzABC...XYZ0123456789"
charset ==
  << "a","b","c","d","e","f","g","h","i","j","k","l","m",
     "n","o","p","q","r","s","t","u","v","w","x","y","z",
     "A","B","C","D","E","F","G","H","I","J","K","L","M",
     "N","O","P","Q","R","S","T","U","V","W","X","Y","Z",
     "0","1","2","3","4","5","6","7","8","9" >>

\* Config.ShortURLBase: "http://short.url/"
ShortURLBase ==
  << "h","t","t","p",":","/","/","s","h","o","r","t",".","u","r","l","/" >>

\* the literal head of the success body: "Short URL: "
BodyHead == << "S","h","o","r","t"," ","U","R","L",":"," " >>

\* the body written by http.Error on every failure of either route
ErrInternal == "Internal server error"

ErrMethod == "Method not allowed"

StatusOK == 200

StatusMethodNotAllowed == 405

StatusInternalServerError == 500

(* ---------------------------------------------------------------------- *)
(* Inputs                                                                  *)
(* ---------------------------------------------------------------------- *)
Methods == {"POST", "GET"}

\* values of the form field long_url; the empty string is what FormValue
\* returns for an absent or empty field
LongURLs == {"", "http://example.com"}

\* the long URL of a request that never reads the form
NoURL == "<unread>"

\* what six successive rand.Intn(62) calls may return (a sample of 62^6)
RandDraws ==
  { << 0, 0, 0, 0, 0, 0 >>, << 61, 26, 52, 25, 51, 1 >> }

\* what template.ParseFiles / tmpl.Execute may do
TemplateOutcomes == {"ok", "parse_error", "execute_error"}

(* ---------------------------------------------------------------------- *)
(* generateShortCode                                                       *)
(* ---------------------------------------------------------------------- *)
\* variant: the loop stops one character early (i < length-1)
generateShortCodeShort(length, draws) ==
  [k \in 1..(length - 1) |-> charset[draws[k] + 1]]

\* shortCode = append(shortCode, charset[rand.Intn(len(charset))]), length
\* times; draws[k] is the value of the k-th rand.Intn call
generateShortCode(length, draws) ==
  [k \in 1..length |-> charset[draws[k] + 1]]

\* a row of the table created by createTable
Row(id, code, url) == [id |-> id, short_code |-> code, long_url |-> url]

VARIABLES
  urls,       \* the 'urls' table: the sequence of its rows in insertion order
  owner,      \* history: owner[k] is the request that inserted row k, 0 if
              \* the row was there at startup
  pc,         \* where each request's task stands
  route,      \* the route of each request
  method,     \* r.Method
  longURL,    \* r.FormValue("long_url")
  i,          \* the loop counter of shortenHandler
  shortCode,  \* the local shortCode of shortenHandler
  expired,    \* whether ctx of the request is past its 5 s deadline
  lastRes,    \* history: outcome of the request's latest existence query
  loopErr,    \* history: some existence query of the loop ended in an error
  dbOps,      \* history: number of storage operations the request issued
  inserts,    \* history: number of INSERT statements the request issued
  tmplRes,    \* history: what the template did for a request of route "/"
  cause,      \* history: why the request answered 500, "none" otherwise
  candErr,    \* history: the loop's query of the current candidate ended
              \* in an error
  gens,       \* history: number of generateShortCode calls of the request
  racedWith,  \* history: the requests that stood before their insert of the
              \* same code at the same time as this request
  pool,       \* the connection pool of db, as counts of requests (PoolSpec)
  status,     \* status code of the response, 0 while there is none
  body        \* body of the response

vars == << urls, owner, pc, route, method, longURL, i, shortCode, expired,
           lastRes, loopErr, dbOps, inserts, tmplRes, cause, candErr, gens,
           racedWith, pool, status, body >>


(* ---------------------------------------------------------------------- *)
(* Storage: the statements the handlers run against the table              *)
(* ---------------------------------------------------------------------- *)
\* SELECT EXISTS(SELECT 1 FROM urls WHERE short_code = ?)
CodeInTable(code, table) ==
  \E k \in 1..Len(table) : table[k].short_code = code

\* db.QueryRowContext(ctx, ...).Scan(&exists): an error when ctx is past its
\* deadline (late) or the read fails (fault), the answer of the query
\* otherwise
QueryRowScan(late, fault, code, table) ==
  IF late \/ fault THEN "error"
  ELSE IF CodeInTable(code, table) THEN "exists"
  ELSE "absent"

\* variant: an error of the query is answered "return false"
shortCodeExistsLax(q) == q = "exists"

\* shortCodeExists: true on an error ("assume it exists"), the answer of the
\* query otherwise
shortCodeExists(q) ==
  IF q = "error" THEN TRUE ELSE q = "exists"

\* variant: the column short_code is not UNIQUE
ExecInsertNoUnique(late, fault, code, url, table) ==
  IF late \/ fault
    THEN [err |-> TRUE, table |-> table]
    ELSE [err |-> FALSE,
          table |-> Append(table, Row(Len(table) + 1, code, url))]

\* variant: a failing write leaves its row behind
ExecInsertPartial(late, fault, code, url, table) ==
  IF late \/ CodeInTable(code, table)
    THEN [err |-> TRUE, table |-> table]
    ELSE [err |-> fault,
          table |-> Append(table, Row(Len(table) + 1, code, url))]

\* variant: db.Exec in place of db.ExecContext, the deadline is not seen
ExecInsertNoCtx(late, fault, code, url, table) ==
  IF fault \/ CodeInTable(code, table)
    THEN [err |-> TRUE, table |-> table]
    ELSE [err |-> FALSE,
          table |-> Append(table, Row(Len(table) + 1, code, url))]

\* variant: the long URL is not bound to the statement, long_url stays empty
ExecInsertNoURL(late, fault, code, url, table) ==
  IF late \/ fault \/ CodeInTable(code, table)
    THEN [err |-> TRUE, table |-> table]
    ELSE [err |-> FALSE,
          table |-> Append(table, Row(Len(table) + 1, code, ""))]

\* variant: a long URL that is already stored is not stored again
ExecInsertDedup(late, fault, code, url, table) ==
  IF late \/ fault \/ CodeInTable(code, table)
    THEN [err |-> TRUE, table |-> table]
  ELSE IF \E k \in 1..Len(table) : table[k].long_url = url
    THEN [err |-> FALSE, table |-> table]
  ELSE [err |-> FALSE,
        table |-> Append(table, Row(Len(table) + 1, code, url))]

\* variant: INSERT OR REPLACE, a row of the same code is overwritten
ExecInsertReplace(late, fault, code, url, table) ==
  IF late \/ fault
    THEN [err |-> TRUE, table |-> table]
  ELSE IF CodeInTable(code, table)
    THEN [err |-> FALSE,
          table |-> [k \in 1..Len(table) |->
                       IF table[k].short_code = code
                         THEN Row(table[k].id, code, url)
                         ELSE table[k]]]
  ELSE [err |-> FALSE,
        table |-> Append(table, Row(Len(table) + 1, code, url))]

\* variant: the error of a failed write is dropped
ExecInsertLostWrite(late, fault, code, url, table) ==
  IF late \/ CodeInTable(code, table)
    THEN [err |-> TRUE, table |-> table]
  ELSE IF fault
    THEN [err |-> FALSE, table |-> table]
  ELSE [err |-> FALSE,
        table |-> Append(table, Row(Len(table) + 1, code, url))]

\* db.ExecContext(ctx, "INSERT INTO urls (short_code, long_url) VALUES (?, ?)"):
\* fails when ctx is past its deadline, when the write fails and when the
\* UNIQUE constraint on short_code rejects the row; otherwise appends the row
\* under the next AUTOINCREMENT id
ExecInsert(late, fault, code, url, table) ==
  IF late \/ fault \/ CodeInTable(code, table)
    THEN [err |-> TRUE, table |-> table]
    ELSE [err |-> FALSE,
          table |-> Append(table, Row(Len(table) + 1, code, url))]

\* why an existence query made shortCodeExists answer true
QueryCause(late, q) ==
  IF q = "exists" THEN "collision"
  ELSE IF late THEN "deadline"
  ELSE "read_error"

\* why ExecContext returned an error
InsertCause(late, fault) ==
  IF late THEN "deadline"
  ELSE IF fault THEN "write_error"
  ELSE "unique"

\* variant: the error text is sent to the client, http.Error(w, err.Error(), 500)
ServerErrorBodyLeak(why) == why

\* http.Error(w, "Internal server error", http.StatusInternalServerError):
\* the cause goes to log.Println only
ServerErrorBody(why) == ErrInternal

\* the pool before any request: all requests still to come
PoolStart ==
  [fresh |-> PoolReqs, idle |-> 0, waiting |-> 0, holding |-> 0,
   lapsed |-> 0, finished |-> 0]

\* fmt.Fprintf(w, "Short URL: %s", fmt.Sprintf("%s%s", base, shortCode))
SuccessBody(base, code) == BodyHead \o base \o code

(* ---------------------------------------------------------------------- *)
(* Initial state: the server is up, the table exists (createTable), no     *)
(* request has arrived.  The database file outlives the process, so the    *)
(* table may hold rows of earlier runs.                                    *)
(* ---------------------------------------------------------------------- *)
InitTables ==
  { << >>,
    << Row(1, generateShortCode(CodeLength, << 0, 0, 0, 0, 0, 0 >>),
           "http://example.com") >> }

NoCode == << >>

Init ==
  /\ urls \in InitTables
  /\ owner = [k \in 1..Len(urls) |-> 0]
  /\ pc = [r \in Reqs |-> "idle"]
  /\ route = [r \in Reqs |-> "/"]
  /\ method = [r \in Reqs |-> "GET"]
  /\ longURL = [r \in Reqs |-> NoURL]
  /\ i = [r \in Reqs |-> 0]
  /\ shortCode = [r \in Reqs |-> NoCode]
  /\ expired = [r \in Reqs |-> FALSE]
  /\ lastRes = [r \in Reqs |-> "none"]
  /\ loopErr = [r \in Reqs |-> FALSE]
  /\ dbOps = [r \in Reqs |-> 0]
  /\ inserts = [r \in Reqs |-> 0]
  /\ tmplRes = [r \in Reqs |-> "none"]
  /\ cause = [r \in Reqs |-> "none"]
  /\ candErr = [r \in Reqs |-> FALSE]
  /\ gens = [r \in Reqs |-> 0]
  /\ racedWith = [r \in Reqs |-> {}]
  /\ pool = PoolStart
  /\ status = [r \in Reqs |-> 0]
  /\ body = [r \in Reqs |-> ""]

\* requests are numbered in the order of their arrival
Arrives(r) ==
  /\ pc[r] = "idle"
  /\ \A q \in Reqs : q < r => pc[q] # "idle"

(* ---------------------------------------------------------------------- *)
(* indexHandler                                                            *)
(* ---------------------------------------------------------------------- *)
\* template.Must(template.ParseFiles("index.html")) panics when the file is
\* missing or does not parse: net/http recovers the panic, logs it and drops
\* the connection, so the caller gets no response.  An error of tmpl.Execute
\* is logged and answered with http.Error(500).
IndexOutcome(t) ==
  IF t = "parse_error"
    THEN [pc |-> "panicked", status |-> 0, body |-> ""]
  ELSE IF t = "execute_error"
    THEN [pc |-> "done", status |-> StatusInternalServerError,
          body |-> ErrInternal]
  ELSE [pc |-> "done", status |-> StatusOK, body |-> "<index.html>"]

indexHandler(r) ==
  \E m \in Methods, t \in TemplateOutcomes :
    /\ Arrives(r)
    /\ route' = [route EXCEPT ![r] = "/"]
    /\ method' = [method EXCEPT ![r] = m]
    /\ tmplRes' = [tmplRes EXCEPT ![r] = t]
    /\ pc' = [pc EXCEPT ![r] = IndexOutcome(t).pc]
    /\ status' = [status EXCEPT ![r] = IndexOutcome(t).status]
    /\ body' = [body EXCEPT ![r] = IndexOutcome(t).body]
    /\ UNCHANGED << urls, owner, longURL, i, shortCode, expired, lastRes,
                    loopErr, dbOps, inserts, cause, candErr, gens, racedWith,
                    pool >>

(* ---------------------------------------------------------------------- *)
(* shortenHandler                                                          *)
(* ---------------------------------------------------------------------- *)
\* lines 83-92: the method check, the form value, the context with its
\* deadline; the loop starts with i = 0
\* variant: the method check is missing
MethodAllowedAny(m) == m \in Methods

MethodAllowed(m) == m = "POST"

ShortenBegin(r) ==
  \E m \in Methods, u \in LongURLs :
    /\ Arrives(r)
    /\ route' = [route EXCEPT ![r] = "/shorten"]
    /\ method' = [method EXCEPT ![r] = m]
    /\ IF MethodAllowed(m)
         THEN /\ longURL' = [longURL EXCEPT ![r] = u]
              /\ pc' = [pc EXCEPT ![r] = "loop"]
              /\ UNCHANGED << status, body >>
         ELSE /\ u = ""
              /\ pc' = [pc EXCEPT ![r] = "done"]
              /\ status' = [status EXCEPT ![r] = StatusMethodNotAllowed]
              /\ body' = [body EXCEPT ![r] = ErrMethod]
              /\ UNCHANGED longURL
    /\ UNCHANGED << urls, owner, i, shortCode, expired, lastRes, loopErr,
                    dbOps, inserts, tmplRes, cause, candErr, gens, racedWith,
                    pool >>

\* the deadline of ctx elapses while the request is between the creation of
\* ctx and the end of its storage operations
Timeout(r) ==
  /\ pc[r] \in {"loop", "recheck", "insert"}
  /\ ~expired[r]
  /\ expired' = [expired EXCEPT ![r] = TRUE]
  /\ UNCHANGED << urls, owner, pc, route, method, longURL, i, shortCode,
                  lastRes, loopErr, dbOps, inserts, tmplRes, cause, candErr,
                  gens, racedWith, pool, status, body >>

\* variant: after the 10th collision the loop starts over
LoopNextRestart(brk, n) ==
  IF brk THEN [pc |-> "recheck", i |-> n]
  ELSE IF n + 1 < MaxAttempts THEN [pc |-> "loop", i |-> n + 1]
  ELSE [pc |-> "loop", i |-> 0]

\* lines 95-100, one iteration: generate a candidate, query it; break when
\* shortCodeExists is false, else i++ and leave the loop once i reaches 10
LoopNext(brk, n) ==
  IF brk THEN [pc |-> "recheck", i |-> n]
  ELSE IF n + 1 < MaxAttempts THEN [pc |-> "loop", i |-> n + 1]
  ELSE [pc |-> "recheck", i |-> n + 1]

ShortenAttempt(r) ==
  \E draws \in RandDraws, fault \in BOOLEAN :
    LET code == generateShortCode(CodeLength, draws)
        q == QueryRowScan(expired[r], fault, code, urls)
        nxt == LoopNext(~shortCodeExists(q), i[r])
    IN  /\ pc[r] = "loop"
        /\ i[r] < MaxAttempts
        /\ shortCode' = [shortCode EXCEPT ![r] = code]
        /\ lastRes' = [lastRes EXCEPT ![r] = q]
        /\ loopErr' = [loopErr EXCEPT ![r] = loopErr[r] \/ q = "error"]
        /\ candErr' = [candErr EXCEPT ![r] = (q = "error")]
        /\ gens' = [gens EXCEPT ![r] = gens[r] + 1]
        /\ dbOps' = [dbOps EXCEPT ![r] = dbOps[r] + 1]
        /\ pc' = [pc EXCEPT ![r] = nxt.pc]
        /\ i' = [i EXCEPT ![r] = nxt.i]
        /\ UNCHANGED << urls, owner, route, method, longURL, expired,
                        inserts, tmplRes, cause, racedWith, pool, status,
                        body >>

\* the requests that stand before their insert of the candidate of r
Rivals(r) ==
  {q \in Reqs \ {r} : pc[q] = "insert" /\ shortCode[q] = shortCode[r]}

\* racedWith once r has joined the requests of R before their insert
Meet(r, R) ==
  [x \in Reqs |->
     IF x = r THEN racedWith[x] \cup R
     ELSE IF x \in R THEN racedWith[x] \cup {r}
     ELSE racedWith[x]]

\* lines 102-106: the query of the last candidate again; 500 when
\* shortCodeExists is true
ShortenRecheck(r) ==
  \E fault \in BOOLEAN :
    LET q == QueryRowScan(expired[r], fault, shortCode[r], urls)
    IN  /\ pc[r] = "recheck"
        /\ lastRes' = [lastRes EXCEPT ![r] = q]
        /\ dbOps' = [dbOps EXCEPT ![r] = dbOps[r] + 1]
        /\ IF shortCodeExists(q)
             THEN /\ pc' = [pc EXCEPT ![r] = "done"]
                  /\ status' = [status EXCEPT ![r] = StatusInternalServerError]
                  /\ body' = [body EXCEPT ![r] =
                                ServerErrorBody(QueryCause(expired[r], q))]
                  /\ cause' = [cause EXCEPT ![r] = QueryCause(expired[r], q)]
                  /\ UNCHANGED racedWith
             ELSE /\ pc' = [pc EXCEPT ![r] = "insert"]
                  /\ racedWith' = Meet(r, Rivals(r))
                  /\ UNCHANGED << status, body, cause >>
        /\ UNCHANGED << urls, owner, route, method, longURL, i, shortCode,
                        expired, loopErr, inserts, tmplRes, candErr, gens,
                        pool >>

\* lines 108-118: the insert; 500 on an error, else 200 with the short URL
ShortenInsert(r) ==
  \E fault \in BOOLEAN :
    LET res == ExecInsert(expired[r], fault, shortCode[r], longURL[r], urls)
    IN  /\ pc[r] = "insert"
        /\ urls' = res.table
        /\ owner' = IF Len(res.table) > Len(urls) THEN Append(owner, r)
                    ELSE owner
        /\ dbOps' = [dbOps EXCEPT ![r] = dbOps[r] + 1]
        /\ inserts' = [inserts EXCEPT ![r] = inserts[r] + 1]
        /\ pc' = [pc EXCEPT ![r] = "done"]
        /\ IF res.err
             THEN /\ status' = [status EXCEPT ![r] = StatusInternalServerError]
                  /\ body' = [body EXCEPT ![r] =
                                ServerErrorBody(InsertCause(expired[r], fault))]
                  /\ cause' = [cause EXCEPT ![r] =
                                 InsertCause(expired[r], fault)]
             ELSE /\ status' = [status EXCEPT ![r] = StatusOK]
                  /\ body' = [body EXCEPT ![r] =
                                SuccessBody(ShortURLBase, shortCode[r])]
                  /\ UNCHANGED cause
        /\ UNCHANGED << route, method, longURL, i, shortCode, expired,
                        lastRes, loopErr, tmplRes, candErr, gens, racedWith,
                        pool >>

Next ==
  \E r \in Reqs :
    \/ indexHandler(r)
    \/ ShortenBegin(r)
    \/ Timeout(r)
    \/ ShortenAttempt(r)
    \/ ShortenRecheck(r)
    \/ ShortenInsert(r)

Spec == Init /\ [][Next]_vars

(* ---------------------------------------------------------------------- *)
(* The connection pool of db (database/sql), configured by                 *)
(* db.SetMaxOpenConns(10).  Every storage call of a handler takes one      *)
(* connection for the time of its statement and carries the request's ctx. *)
(* The requests are interchangeable here, so the pool is a record of       *)
(* counts: fresh (not arrived), idle (in the handler, in no storage call), *)
(* waiting (blocked for a connection), holding (running a statement on a   *)
(* connection), lapsed (past the deadline), finished (responded).          *)
(* ---------------------------------------------------------------------- *)
mainVars == << urls, owner, pc, route, method, longURL, i, shortCode,
               expired, lastRes, loopErr, dbOps, inserts, tmplRes, cause,
               candErr, gens, racedWith, status, body >>

\* variant: SetMaxOpenConns is not called, the number of connections is
\* not limited
ConnFreeNoLimit(h) == h >= 0

\* whether a storage call finds a connection at once: fewer than
\* MaxOpenConns are in use (0 means no limit)
ConnFree(h) == MaxOpenConns = 0 \/ h < MaxOpenConns

\* a request arrives: its handler starts, ctx gets its deadline
PoolArrive ==
  /\ pool.fresh > 0
  /\ pool' = [pool EXCEPT !.fresh = @ - 1, !.idle = @ + 1]
  /\ UNCHANGED mainVars

\* QueryRowContext / ExecContext of a request whose ctx is live: the call
\* takes a connection when one is free, else it waits for one
PoolCall ==
  /\ pool.idle > 0
  /\ IF ConnFree(pool.holding)
       THEN pool' = [pool EXCEPT !.idle = @ - 1, !.holding = @ + 1]
       ELSE pool' = [pool EXCEPT !.idle = @ - 1, !.waiting = @ + 1]
  /\ UNCHANGED mainVars

\* a connection is given back: it goes to a waiting call when there is
\* one, else it is free again
GiveBack(p) ==
  IF p.waiting > 0
    THEN [p EXCEPT !.waiting = @ - 1]
    ELSE [p EXCEPT !.holding = @ - 1]

\* the statement of a call ends and the call returns
PoolReturn ==
  /\ pool.holding > 0
  /\ pool' = [GiveBack(pool) EXCEPT !.idle = @ + 1]
  /\ UNCHANGED mainVars

\* the deadline of a request elapses while its call waits for a
\* connection: the call returns ctx.Err()
PoolDeadlineWaiting ==
  /\ pool.waiting > 0
  /\ pool' = [pool EXCEPT !.waiting = @ - 1, !.lapsed = @ + 1]
  /\ UNCHANGED mainVars

\* the deadline elapses while the statement runs: the statement is
\* interrupted and the connection given back
PoolDeadlineHolding ==
  /\ pool.holding > 0
  /\ pool' = [GiveBack(pool) EXCEPT !.lapsed = @ + 1]
  /\ UNCHANGED mainVars

\* the deadline elapses between two calls
PoolDeadlineIdle ==
  /\ pool.idle > 0
  /\ pool' = [pool EXCEPT !.idle = @ - 1, !.lapsed = @ + 1]
  /\ UNCHANGED mainVars

\* the handler responds; the calls of a lapsed request fail at once, with
\* no connection, and it responds 500
PoolFinish ==
  \/ /\ pool.idle > 0
     /\ pool' = [pool EXCEPT !.idle = @ - 1, !.finished = @ + 1]
     /\ UNCHANGED mainVars
  \/ /\ pool.lapsed > 0
     /\ pool' = [pool EXCEPT !.lapsed = @ - 1, !.finished = @ + 1]
     /\ UNCHANGED mainVars

PoolInit == Init /\ urls = << >>

PoolNext ==
  \/ PoolArrive
  \/ PoolCall
  \/ PoolReturn
  \/ PoolDeadlineWaiting
  \/ PoolDeadlineHolding
  \/ PoolDeadlineIdle
  \/ PoolFinish

PoolSpec == PoolInit /\ [][PoolNext]_vars

\* every task that can take its next step takes it: the Go scheduler runs
\* each request's goroutine, and each storage call returns (at the latest
\* with an error when ctx is done)
FairSpec ==
  /\ Spec
  /\ \A r \in Reqs :
       /\ WF_vars(ShortenAttempt(r))
       /\ WF_vars(ShortenRecheck(r))
       /\ WF_vars(ShortenInsert(r))

(* ====================================================================== *)
(* Properties                                                              *)
(* ====================================================================== *)
\* the shorten requests that answered 200
Ok200(r) == route[r] = "/shorten" /\ status[r] = StatusOK

\* the code a 200 response of the shorten route carries after the prefix
ResponseCode(r) ==
  SubSeq(body[r], Len(BodyHead) + Len(ShortURLBase) + 1, Len(body[r]))

\* the rows a request inserted
RowsOf(r) == {k \in 1..Len(urls) : owner[k] = r}

\* the request has ended: with a response, or dropped by a panic
Finished(r) == pc[r] \in {"done", "panicked"}

\* the 62 characters of the alphabet
Alphabet == {charset[k] : k \in 1..Len(charset)}

(* ---------------------------------------------------------------------- *)
\* C1: in every reachable state no two rows of the table carry the same
\* short code, and the codes of any two 200 responses of the shorten route
\* are distinct.
C1_UniqueCodes ==
  /\ \A k, l \in 1..Len(urls) :
       k # l => urls[k].short_code # urls[l].short_code
  /\ \A r, q \in Reqs :
       (r # q /\ Ok200(r) /\ Ok200(q)) => ResponseCode(r) # ResponseCode(q)

\* two requests have answered 200 and the table holds their two rows
C1_Witness ==
  \E r, q \in Reqs :
    /\ r # q /\ Ok200(r) /\ Ok200(q)
    /\ RowsOf(r) # {} /\ RowsOf(q) # {}

(* ---------------------------------------------------------------------- *)
\* C2: once all requests have ended, the number of rows added to the table
\* equals the number of shorten requests that answered 200: each of these
\* added exactly one row, every other request added none.
C2_RowsMatchSuccesses ==
  (\A r \in Reqs : Finished(r)) =>
    /\ Cardinality({k \in 1..Len(urls) : owner[k] # 0})
         = Cardinality({r \in Reqs : Ok200(r)})
    /\ \A r \in Reqs :
         Cardinality(RowsOf(r)) = IF Ok200(r) THEN 1 ELSE 0

\* all requests ended, one with 200 and one with 500 after a failed insert
C2_Witness ==
  /\ \A r \in Reqs : Finished(r)
  /\ \E r, q \in Reqs :
       /\ Ok200(r)
       /\ route[q] = "/shorten" /\ inserts[q] = 1
       /\ status[q] = StatusInternalServerError

(* ---------------------------------------------------------------------- *)
\* C3: a request to the shorten route whose method is not POST gets 405
\* "Method not allowed", issues no storage operation (no existence query,
\* no insert) and owns no row of the table.
C3_MethodEnforced ==
  \A r \in Reqs :
    (pc[r] # "idle" /\ route[r] = "/shorten" /\ method[r] # "POST") =>
      /\ pc[r] = "done"
      /\ status[r] = StatusMethodNotAllowed
      /\ body[r] = ErrMethod
      /\ dbOps[r] = 0 /\ inserts[r] = 0
      /\ RowsOf(r) = {}

\* a GET to the shorten route was answered while the table holds rows
C3_Witness ==
  \E r \in Reqs :
    /\ route[r] = "/shorten" /\ method[r] = "GET"
    /\ status[r] = StatusMethodNotAllowed
    /\ Len(urls) > 0

(* ---------------------------------------------------------------------- *)
\* C4: once the deadline of a shorten request has elapsed before its
\* storage operations are complete, every storage operation it issues
\* fails (a query ends in an error, an insert changes nothing), the request
\* answers 500, and no row of the request is in the table.
C4_State ==
  \A r \in Reqs :
    (expired[r] /\ pc[r] = "done") =>
      /\ status[r] = StatusInternalServerError
      /\ body[r] = ErrInternal
      /\ RowsOf(r) = {}

C4_Step ==
  \A r \in Reqs :
    (expired[r] /\ dbOps'[r] # dbOps[r]) =>
      /\ urls' = urls
      /\ (pc[r] # "insert" => lastRes'[r] = "error")
      /\ (pc'[r] = "done" => status'[r] = StatusInternalServerError)

C4_Timeout == []C4_State /\ [][C4_Step]_vars

\* a request whose deadline elapsed between its re-check and its insert
\* has issued the insert and answered 500
C4_Witness ==
  \E r \in Reqs :
    /\ expired[r] /\ pc[r] = "done"
    /\ inserts[r] = 1
    /\ status[r] = StatusInternalServerError

(* ---------------------------------------------------------------------- *)
\* the case of C5: a shorten request has ended, the queries of its first 9
\* candidates answered "exists" (no error), the 10th candidate was reported
\* absent in the loop and again in the re-check
C5_Case(r) ==
  /\ route[r] = "/shorten" /\ method[r] = "POST" /\ pc[r] = "done"
  /\ i[r] = MaxAttempts - 1
  /\ ~loopErr[r]
  /\ lastRes[r] = "absent"

\* C5 as stated: when storage reports "exists" for the first 9 candidates
\* and "does not exist" for the 10th, the request succeeds: it inserts a
\* row whose code is the 10th candidate and answers 200 with that code.
C5_Original ==
  \A r \in Reqs :
    C5_Case(r) =>
      /\ status[r] = StatusOK
      /\ \E k \in RowsOf(r) : urls[k].short_code = shortCode[r]
      /\ body[r] = SuccessBody(ShortURLBase, shortCode[r])

\* C5 as amended: in that case the request issues exactly one insert, of
\* the 10th candidate with its long URL; if the insert commits it answers
\* 200 with that code, and if the insert fails (storage error, elapsed
\* deadline, the code inserted meanwhile by another request) it answers
\* 500 and adds no row.
C5_TenthCandidate ==
  \A r \in Reqs :
    C5_Case(r) =>
      /\ inserts[r] = 1
      /\ dbOps[r] = MaxAttempts + 2
      /\ \/ /\ status[r] = StatusOK
            /\ body[r] = SuccessBody(ShortURLBase, shortCode[r])
            /\ \E k \in 1..Len(urls) :
                 /\ RowsOf(r) = {k}
                 /\ urls[k].short_code = shortCode[r]
                 /\ urls[k].long_url = longURL[r]
         \/ /\ status[r] = StatusInternalServerError
            /\ body[r] = ErrInternal
            /\ RowsOf(r) = {}

\* the case has happened and ended with 200
C5_Witness ==
  \E r \in Reqs : C5_Case(r) /\ status[r] = StatusOK /\ RowsOf(r) # {}

(* ---------------------------------------------------------------------- *)
\* C6: when the existence check of each of the 10 attempts of a shorten
\* request reported a collision (an "exists" answer or a read error), the
\* request answers 500 and issues no insert.
C6_AllCollide ==
  \A r \in Reqs :
    (route[r] = "/shorten" /\ pc[r] = "done" /\ i[r] = MaxAttempts) =>
      /\ status[r] = StatusInternalServerError
      /\ inserts[r] = 0

(* ---------------------------------------------------------------------- *)
\* C7: two shorten requests that answered 200 for the same long URL have
\* two distinct rows with two distinct codes, each row holding that URL.
C7_NoDedup ==
  \A r, q \in Reqs :
    (r # q /\ Ok200(r) /\ Ok200(q) /\ longURL[r] = longURL[q]) =>
      /\ ResponseCode(r) # ResponseCode(q)
      /\ \E k, l \in 1..Len(urls) :
           /\ k # l
           /\ RowsOf(r) = {k} /\ RowsOf(q) = {l}
           /\ urls[k].short_code = ResponseCode(r)
           /\ urls[l].short_code = ResponseCode(q)
           /\ urls[k].short_code # urls[l].short_code
           /\ urls[k].long_url = longURL[r]
           /\ urls[l].long_url = longURL[q]

\* two requests have answered 200 for the same long URL
C7_Witness ==
  \E r, q \in Reqs :
    r # q /\ Ok200(r) /\ Ok200(q) /\ longURL[r] = longURL[q]

(* ---------------------------------------------------------------------- *)
\* C8: for every long URL, the empty string included, the body of a 200
\* response of the shorten route is "Short URL: ", then the base prefix,
\* then a code of exactly 6 characters of the 62 character alphabet.
C8_BodyFormat ==
  /\ Cardinality(Alphabet) = 62
  /\ \A r \in Reqs :
       Ok200(r) =>
         /\ Len(body[r]) = Len(BodyHead) + Len(ShortURLBase) + 6
         /\ SubSeq(body[r], 1, Len(BodyHead)) = BodyHead
         /\ SubSeq(body[r], Len(BodyHead) + 1,
                   Len(BodyHead) + Len(ShortURLBase)) = ShortURLBase
         /\ Len(ResponseCode(r)) = 6
         /\ \A k \in 1..Len(ResponseCode(r)) : ResponseCode(r)[k] \in Alphabet

\* a request with the empty long URL has answered 200
C8_Witness ==
  \E r \in Reqs : Ok200(r) /\ longURL[r] = ""

(* ---------------------------------------------------------------------- *)
\* C9: any failure to render the start page, a missing template file
\* included, ends in a 500 "Internal server error" response; the request
\* never ends without a response.
C9_RenderFailure ==
  \A r \in Reqs :
    (route[r] = "/" /\ tmplRes[r] \in {"parse_error", "execute_error"}) =>
      /\ pc[r] = "done"
      /\ status[r] = StatusInternalServerError
      /\ body[r] = ErrInternal

(* ---------------------------------------------------------------------- *)
\* C10: across the requests of both routes a row of the table is never
\* modified and never removed: every step keeps every row as it is.
C10_Step ==
  /\ Len(urls') >= Len(urls)
  /\ \A k \in 1..Len(urls) : urls'[k] = urls[k]

C10_RowsOnlyAdded == [][C10_Step]_vars

\* a row has been added behind a row that was there before
C10_Witness ==
  \E k \in 1..Len(urls) : k >= 2 /\ owner[k] # 0

(* ---------------------------------------------------------------------- *)
\* a shorten request that answered 500
Failed500(r) ==
  route[r] = "/shorten" /\ status[r] = StatusInternalServerError

\* C11: every 500 response of the shorten route has the body "Internal
\* server error" whatever its cause (10 collisions, read error, insert
\* error, uniqueness violation, timeout) and whatever is stored: any two
\* such responses are equal.
C11_OpaqueErrors ==
  \A r, q \in Reqs :
    (Failed500(r) /\ Failed500(q)) =>
      /\ body[r] = ErrInternal
      /\ body[r] = body[q]
      /\ status[r] = status[q]

\* two requests have answered 500 for two different causes
C11_Witness ==
  \E r, q \in Reqs :
    /\ Failed500(r) /\ Failed500(q)
    /\ cause[r] # cause[q]
    /\ cause[r] \in {"collision", "read_error", "deadline"}
    /\ cause[q] \in {"write_error", "unique"}

(* ---------------------------------------------------------------------- *)
\* C12: whenever an existence check of the loop reports its candidate as
\* not existing (the loop is left before its 10th collision), the request
\* goes on to an insert of that code; a 500 without any insert is answered
\* only when all 10 attempts collided.
C12_BreakThenInsert ==
  \A r \in Reqs :
    (route[r] = "/shorten" /\ method[r] = "POST" /\ pc[r] = "done") =>
      /\ (i[r] < MaxAttempts => inserts[r] = 1)
      /\ ((status[r] = StatusInternalServerError /\ inserts[r] = 0)
            => i[r] = MaxAttempts)

(* ---------------------------------------------------------------------- *)
\* the case of C13: r and q stood before their insert of the same code at
\* the same time (both had passed their checks, neither had inserted), and
\* both have ended
C13_Case(r, q) ==
  /\ r # q
  /\ q \in racedWith[r]
  /\ pc[r] = "done" /\ pc[q] = "done"

\* the insert of x failed for a reason other than the UNIQUE constraint
OtherFailure(x) == cause[x] \in {"deadline", "write_error"}

\* C13 as stated: in that case exactly one of the two inserts commits, the
\* other is rejected by the uniqueness constraint and its request answers
\* 500 without another candidate.
C13_Original ==
  \A r, q \in Reqs :
    C13_Case(r, q) =>
      \E w \in {r, q} :
        \A l \in {r, q} \ {w} :
          /\ Ok200(w) /\ RowsOf(w) # {}
          /\ Failed500(l) /\ cause[l] = "unique" /\ RowsOf(l) = {}
          /\ dbOps[l] = gens[l] + 2

\* C13 as amended: in that case at most one of the two inserts commits and
\* the code is stored at most once; each request issues exactly one insert
\* and no further candidate, and a request whose insert did not commit
\* answers 500; unless an insert fails for another reason (storage error,
\* elapsed deadline), the code is stored exactly once and every one of the
\* two that did not store it was rejected by the uniqueness constraint.
C13_Race ==
  \A r, q \in Reqs :
    C13_Case(r, q) =>
      /\ shortCode[r] = shortCode[q]
      /\ Cardinality(RowsOf(r) \cup RowsOf(q)) <= 1
      /\ Cardinality({k \in 1..Len(urls) :
                        urls[k].short_code = shortCode[r]}) <= 1
      /\ \A x \in {r, q} :
           /\ inserts[x] = 1
           /\ dbOps[x] = gens[x] + 2
           /\ \/ Ok200(x) /\ Cardinality(RowsOf(x)) = 1
              \/ /\ Failed500(x) /\ RowsOf(x) = {}
                 /\ cause[x] \in {"unique", "deadline", "write_error"}
      /\ (~OtherFailure(r) /\ ~OtherFailure(q)) =>
           /\ CodeInTable(shortCode[r], urls)
           /\ \A x \in {r, q} : Ok200(x) \/ cause[x] = "unique"

\* a race has ended with one 200 and one rejection by the constraint
C13_Witness ==
  \E r, q \in Reqs :
    /\ C13_Case(r, q)
    /\ Ok200(r)
    /\ Failed500(q) /\ cause[q] = "unique"

(* ---------------------------------------------------------------------- *)
\* C14: a shorten request issues at most one insert; when that insert
\* fails (uniqueness violation, storage error, elapsed deadline) the step
\* leaves the table unchanged and answers 500, and the request neither
\* inserts again nor generates another code.
C14_State ==
  \A r \in Reqs :
    /\ inserts[r] <= 1
    /\ (inserts[r] = 1 /\ ~Ok200(r)) =>
         /\ pc[r] = "done"
         /\ Failed500(r) /\ body[r] = ErrInternal
         /\ cause[r] \in {"unique", "deadline", "write_error"}
         /\ RowsOf(r) = {}
         /\ dbOps[r] = gens[r] + 2

C14_Step ==
  \A r \in Reqs :
    /\ (inserts'[r] # inserts[r] /\ status'[r] # StatusOK) =>
         /\ urls' = urls
         /\ status'[r] = StatusInternalServerError
         /\ pc'[r] = "done"
    /\ (pc[r] = "done") =>
         /\ pc'[r] = "done"
         /\ inserts'[r] = inserts[r] /\ gens'[r] = gens[r]
         /\ dbOps'[r] = dbOps[r] /\ shortCode'[r] = shortCode[r]

C14_SingleInsert == []C14_State /\ [][C14_Step]_vars

\* an insert was rejected by the constraint, another failed on a write
\* error
C14_Witness ==
  \E r \in Reqs :
    /\ pc[r] = "done" /\ inserts[r] = 1
    /\ cause[r] \in {"unique", "write_error"}
    /\ Len(urls) > 0

(* ---------------------------------------------------------------------- *)
\* C15: an existence check that ends in a read error forces another
\* generation attempt: the request never inserts a candidate whose check in
\* the loop ended in a read error.
C15_ErrNeverInserted ==
  \A r \in Reqs :
    /\ (pc[r] \in {"recheck", "insert"} => ~candErr[r])
    /\ (inserts[r] >= 1 => ~candErr[r])

(* ---------------------------------------------------------------------- *)
\* C16: every shorten request ends with exactly one response (200, 405 or
\* 500) after at most 10 generated candidates, also when every check
\* collides or fails: no request regenerates without bound.
C16_Bounded ==
  \A r \in Reqs :
    /\ gens[r] <= MaxAttempts
    /\ status[r] \in {0, StatusOK, StatusMethodNotAllowed,
                      StatusInternalServerError}
    /\ (route[r] = "/shorten" /\ pc[r] = "done") => status[r] # 0

C16_Step ==
  \A r \in Reqs :
    status[r] # 0 =>
      /\ status'[r] = status[r] /\ body'[r] = body[r]
      /\ gens'[r] = gens[r]

\* no shorten request is between its first and its last step; a request
\* that has left these steps never returns to them
C16_Quiet ==
  \A r \in Reqs : pc[r] \notin {"loop", "recheck", "insert"}

C16_Terminates ==
  /\ []C16_Bounded
  /\ [][C16_Step]_vars
  /\ []<>C16_Quiet

\* a request has answered 500 after 10 candidates that all collided
C16_Witness ==
  \E r \in Reqs :
    /\ pc[r] = "done" /\ Failed500(r)
    /\ gens[r] = MaxAttempts /\ i[r] = MaxAttempts

(* ---------------------------------------------------------------------- *)
\* C18: a shorten request inserts only its last candidate, and only when
\* the storage operation right before was the re-check of that candidate
\* answering "does not exist" without error; when the re-check answers
\* "exists" or fails, the request answers 500 with no insert, also after
\* fewer than 10 generations.
C18_InsertAfterCleanRecheck ==
  \A r \in Reqs :
    /\ (pc[r] = "insert" \/ inserts[r] >= 1) =>
         /\ lastRes[r] = "absent"
         /\ dbOps[r] = gens[r] + 1 + inserts[r]
    /\ \A k \in RowsOf(r) :
         urls[k].short_code = shortCode[r] /\ urls[k].long_url = longURL[r]
    /\ (route[r] = "/shorten" /\ pc[r] = "done"
          /\ lastRes[r] \in {"exists", "error"}) =>
         /\ Failed500(r)
         /\ inserts[r] = 0 /\ RowsOf(r) = {}
         /\ dbOps[r] = gens[r] + 1

\* a request has answered 500 without insert after fewer than 10
\* generations, its re-check having found the code stored meanwhile
C18_Witness ==
  \E r \in Reqs :
    /\ pc[r] = "done" /\ Failed500(r)
    /\ gens[r] < MaxAttempts /\ i[r] < MaxAttempts
    /\ lastRes[r] = "exists" /\ inserts[r] = 0

(* ---------------------------------------------------------------------- *)
\* C19: whenever a shorten request has answered 200 with a code, the table
\* holds, then and in every later state, a row of that request mapping
\* exactly that code to exactly the long URL it submitted.
C19_Durable200 ==
  \A r \in Reqs :
    Ok200(r) =>
      \E k \in RowsOf(r) :
        /\ urls[k].short_code = ResponseCode(r)
        /\ urls[k].long_url = longURL[r]

\* a request has answered 200 and a later request has added its row behind
C19_Witness ==
  \E r \in Reqs :
    /\ Ok200(r)
    /\ \E k \in RowsOf(r) : k < Len(urls) /\ owner[k + 1] # 0

(* ---------------------------------------------------------------------- *)
\* C17: at most 10 storage connections are in use at any time; a call that
\* needs a connection while all 10 are in use waits for one instead of
\* failing (calls wait only then), and a waiting call ends either with a
\* connection given back to it or with its deadline elapsing.
C17_State ==
  /\ pool.holding <= 10
  /\ pool.waiting > 0 => pool.holding = 10

C17_Step ==
  /\ (/\ pool.holding = 10
      /\ pool'.idle = pool.idle - 1
      /\ pool'.lapsed = pool.lapsed /\ pool'.finished = pool.finished)
       => (pool'.waiting = pool.waiting + 1 /\ pool'.holding = 10)
  /\ (pool'.waiting = pool.waiting - 1)
       => \/ /\ pool'.holding = pool.holding
             /\ pool'.idle + pool'.lapsed = pool.idle + pool.lapsed + 1
          \/ /\ pool'.lapsed = pool.lapsed + 1
             /\ pool'.holding = pool.holding /\ pool'.idle = pool.idle

====
